---- MODULE Spec2Model ----
(* A model of package mat (src/mat.go): dense row-major matrices over a flat  *)
(* buffer, the structural and element-wise operations, and the three product  *)
(* strategies.  Cells are modelled as integers (float64 is exact on the small *)
(* integers used here).  A Go panic is modelled as a result with ok = FALSE.  *)
(* A Go slice is modelled by its elements; index and slice expressions are    *)
(* range-checked against its length.                                          *)
EXTENDS Integers, Sequences, FiniteSets, TLC

\* Largest row / column count of an input matrix.
MaxDim == 3

\* Largest rows / cols argument of the caller working on the heap.
MaxHeapDim == 1

\* Most Matrix values the caller keeps.
MaxMats == 3

VARIABLES
    ma, mb,      \* the operands of the call under study
    out,         \* the last call on a, b and what it returned
    mc,          \* ParallelProduct: the result matrix its tasks fill
    pc,          \* ParallelProduct: where the calling goroutine is
    loopI,       \* ParallelProduct: the fork loop's i
    wg,          \* ParallelProduct: the sync.WaitGroup counter
    task,        \* ParallelProduct: each row task's state and its j
    writes,      \* ParallelProduct: per cell of c.data, the tasks that wrote it
    reads,       \* ParallelProduct: the cells the tasks have read
    heap,        \* every []float64 backing array allocated so far
    mats,        \* the Matrix values the caller holds
    held,        \* the backing arrays the caller holds as []float64
    last         \* the caller's last step: a call of the package or a write, and whether it returned

vars == <<ma, mb, out, mc, pc, loopI, wg, task, writes, reads, heap, mats, held, last>>

parVars == <<mc, pc, loopI, wg, task, writes, reads>>

heapVars == <<heap, mats, held, last>>

--------------------------------------------------------------------------------
(* Values and results *)

\* type Matrix struct { rows, cols int; data []float64 }
Matrix(r, c, d) == [rows |-> r, cols |-> c, data |-> d]

NoMatrix == Matrix(0, 0, <<>>)

\* A call that returned m.
Ok(m) == [ok |-> TRUE, err |-> "", val |-> m]

\* A call that panicked with message class e.
Panic(e) == [ok |-> FALSE, err |-> e, val |-> NoMatrix]

\* make([]float64, n): n zeroed cells (n >= 0).
Zeros(n) == [k \in 1..n |-> 0]

\* Go's d[idx] is legal iff 0 <= idx < len(d).
InRange(d, idx) == idx >= 0 /\ idx < Len(d)

\* Go's d[lo:hi] is legal iff 0 <= lo <= hi <= len(d).
SliceOK(d, lo, hi) == 0 <= lo /\ lo <= hi /\ hi <= Len(d)

\* d[lo:hi], zero-based and half-open.
GoSlice(d, lo, hi) == SubSeq(d, lo + 1, hi)

\* copy(dst, src): the first min(len(dst), len(src)) cells of src over dst.
GoCopy(dst, src) == [k \in 1..Len(dst) |-> IF k <= Len(src) THEN src[k] ELSE dst[k]]

--------------------------------------------------------------------------------
(* Callables handed to the package by the caller *)

\* The generators f(i, j) used with FromFunc and Apply.
Gens == {"one", "two", "pos", "diag"}

GenAt(g, i, j) ==
    CASE g = "one"  -> 1
      [] g = "two"  -> 2
      [] g = "pos"  -> 10 * i + j + 1
      [] OTHER      -> IF i = j THEN 2 ELSE 0

\* The cell functions f(v) used with Map; Scale and AddScalar build theirs.
ScaleFn(x) == [kind |-> "scale", x |-> x]

AddFn(x) == [kind |-> "add", x |-> x]

FnAt(f, v) == IF f.kind = "scale" THEN f.x * v ELSE f.x + v

\* The row predicates f(i) used with FilterRows.
Preds == {"odd", "all", "none"}

PredAt(p, i) ==
    CASE p = "odd" -> i % 2 = 1
      [] p = "all" -> TRUE
      [] OTHER     -> FALSE

--------------------------------------------------------------------------------
(* Constructors and accessors *)

\* func New(rows, cols int) Matrix
New(rows, cols) ==
    IF rows * cols < 0 THEN Panic("makeslice")
    ELSE Ok(Matrix(rows, cols, Zeros(rows * cols)))

\* func FromSlice(rows, cols int, data []float64) Matrix
FromSlice(rows, cols, data) ==
    IF Len(data) # rows * cols THEN Panic("dimension mismatch")
    ELSE Ok(Matrix(rows, cols, GoCopy(Zeros(Len(data)), data)))

\* func (m Matrix) checkPos(i, j int): TRUE iff it panics.
checkPos(m, i, j) == i < 0 \/ i >= m.rows \/ j < 0 \/ j >= m.cols

\* func (m Matrix) at(i, j int) float64: the index it reads.
atIdx(m, i, j) == m.cols * i + j

at(m, i, j) == m.data[atIdx(m, i, j) + 1]

\* func (m *Matrix) set(i, j int, x float64): the index it writes.
setIdx(m, i, j) == m.cols * i + j

set(m, i, j, x) == [m EXCEPT !.data[setIdx(m, i, j) + 1] = x]

\* The i, j loops of FromFunc and Apply: m.set(i, j, f(i, j)) in row-major order.
RECURSIVE fillLoop(_, _, _, _)
fillLoop(m, g, i, j) ==
    IF i >= m.rows THEN Ok(m)
    ELSE IF j >= m.cols THEN fillLoop(m, g, i + 1, 0)
    ELSE IF ~InRange(m.data, setIdx(m, i, j)) THEN Panic("index out of range")
    ELSE fillLoop(set(m, i, j, GenAt(g, i, j)), g, i, j + 1)

\* func FromFunc(rows, cols int, f func(i, j int) float64) Matrix
FromFunc(rows, cols, g) ==
    IF rows * cols < 0 THEN Panic("makeslice")
    ELSE fillLoop(Matrix(rows, cols, Zeros(rows * cols)), g, 0, 0)

\* func (m Matrix) Clone() Matrix
Clone(m) ==
    LET c == New(m.rows, m.cols)
    IN  IF ~c.ok THEN c ELSE Ok([c.val EXCEPT !.data = GoCopy(c.val.data, m.data)])

\* func (m Matrix) Apply(f func(i, j int) float64): the cells it leaves in m.data.
Apply(m, g) == fillLoop(m, g, 0, 0)

\* func (m Matrix) Set(i, j int, x float64) Matrix
Set(m, i, j, x) ==
    IF checkPos(m, i, j) THEN Panic("index out of range")
    ELSE LET r == Clone(m)
         IN  IF ~r.ok THEN r
             ELSE IF ~InRange(r.val.data, setIdx(r.val, i, j)) THEN Panic("index out of range")
             ELSE Ok(set(r.val, i, j, x))

\* func Map(f func(float64) float64, m Matrix) Matrix
Map(f, m) ==
    LET r == Clone(m)
    IN  IF ~r.ok THEN r
        ELSE Ok([r.val EXCEPT !.data = [k \in 1..Len(r.val.data) |-> FnAt(f, r.val.data[k])]])

\* func (m Matrix) Scale(x float64) Matrix
Scale(m, x) == Map(ScaleFn(x), m)

\* func (m Matrix) AddScalar(x float64) Matrix
AddScalar(m, x) == Map(AddFn(x), m)

--------------------------------------------------------------------------------
(* Structural operations *)

\* The inputs' checks of ConcatenateCols: every m.Rows() equals ms[0].Rows().
sameRows(ms) == \A n \in 1..Len(ms) : ms[n].rows = ms[1].rows

\* The inputs' checks of ConcatenateRows: every m.Cols() equals ms[0].Cols().
sameCols(ms) == \A n \in 1..Len(ms) : ms[n].cols = ms[1].cols

\* cols += m.Cols() over ms[n..]
RECURSIVE sumCols(_, _)
sumCols(ms, n) == IF n > Len(ms) THEN 0 ELSE ms[n].cols + sumCols(ms, n + 1)

\* rows += m.Rows() over ms[n..]
RECURSIVE sumRows(_, _)
sumRows(ms, n) == IF n > Len(ms) THEN 0 ELSE ms[n].rows + sumRows(ms, n + 1)

\* concatColsLoop appending each m's whole buffer, as ConcatenateRows does.
RECURSIVE concatColsLoopWhole(_, _, _, _, _)
concatColsLoopWhole(ms, rows, i, n, data) ==
    IF n > Len(ms) THEN [ok |-> TRUE, data |-> data]
    ELSE concatColsLoopWhole(ms, rows, i, n + 1, data \o ms[n].data)

\* The append loops of ConcatenateCols: for each row i, each m's row segment.
RECURSIVE concatColsLoop(_, _, _, _, _)
concatColsLoop(ms, rows, i, n, data) ==
    IF i >= rows THEN [ok |-> TRUE, data |-> data]
    ELSE IF n > Len(ms) THEN concatColsLoop(ms, rows, i + 1, 1, data)
    ELSE LET m == ms[n]
         IN  IF ~SliceOK(m.data, i * m.cols, (i + 1) * m.cols)
             THEN [ok |-> FALSE, data |-> <<>>]
             ELSE concatColsLoop(ms, rows, i, n + 1,
                                 data \o GoSlice(m.data, i * m.cols, (i + 1) * m.cols))

\* func ConcatenateCols(ms ...Matrix) Matrix
ConcatenateCols(ms) ==
    IF Len(ms) = 0 THEN Panic("empty input")
    ELSE IF ~sameRows(ms) THEN Panic("dimension mismatch")
    ELSE LET rows == ms[1].rows
             cols == sumCols(ms, 1)
         IN  IF rows * cols < 0 THEN Panic("makeslice")
             ELSE LET r == concatColsLoop(ms, rows, 0, 1, <<>>)
                  IN  IF ~r.ok THEN Panic("slice bounds out of range")
                      ELSE Ok(Matrix(rows, cols, r.data))

\* The append loop of ConcatenateRows: every m.data in argument order.
RECURSIVE concatRowsLoop(_, _, _)
concatRowsLoop(ms, n, data) ==
    IF n > Len(ms) THEN data ELSE concatRowsLoop(ms, n + 1, data \o ms[n].data)

\* func ConcatenateRows(ms ...Matrix) Matrix
ConcatenateRows(ms) ==
    IF Len(ms) = 0 THEN Panic("empty input")
    ELSE IF ~sameCols(ms) THEN Panic("dimension mismatch")
    ELSE LET rows == sumRows(ms, 1)
             cols == ms[1].cols
         IN  IF rows * cols < 0 THEN Panic("makeslice")
             ELSE Ok(Matrix(rows, cols, concatRowsLoop(ms, 1, <<>>)))

\* badColRange without its to < from test.
badColRangeNoOrder(m, from, to) == from < 0 \/ to > m.cols

\* The range check of SliceCols: TRUE iff it panics with "bad row numbers".
badColRange(m, from, to) == from < 0 \/ to > m.cols \/ to < from

\* The append loop of SliceCols.
RECURSIVE sliceColsLoop(_, _, _, _, _)
sliceColsLoop(m, from, to, i, data) ==
    IF i >= m.rows THEN [ok |-> TRUE, data |-> data]
    ELSE IF ~SliceOK(m.data, i * m.cols + from, i * m.cols + to)
         THEN [ok |-> FALSE, data |-> <<>>]
    ELSE sliceColsLoop(m, from, to, i + 1,
                       data \o GoSlice(m.data, i * m.cols + from, i * m.cols + to))

\* func (m Matrix) SliceCols(from, to int) Matrix
SliceCols(m, from, to) ==
    IF badColRange(m, from, to) THEN Panic("invalid range")
    ELSE IF m.rows * (to - from) < 0 THEN Panic("makeslice")
    ELSE LET r == sliceColsLoop(m, from, to, 0, <<>>)
         IN  IF ~r.ok THEN Panic("slice bounds out of range")
             ELSE Ok(Matrix(m.rows, to - from, r.data))

\* The range check of SliceRows: TRUE iff it panics with "bad row numbers".
badRowRange(m, from, to) == from < 0 \/ to > m.rows \/ to < from

\* func (m Matrix) SliceRows(from, to int) Matrix
SliceRows(m, from, to) ==
    IF badRowRange(m, from, to) THEN Panic("invalid range")
    ELSE IF m.cols * (to - from) < 0 THEN Panic("makeslice")
    ELSE IF ~SliceOK(m.data, from * m.cols, to * m.cols) THEN Panic("slice bounds out of range")
    ELSE Ok(Matrix(to - from, m.cols,
                   GoCopy(Zeros(m.cols * (to - from)), GoSlice(m.data, from * m.cols, to * m.cols))))

\* The loop of FilterRows: rows kept so far and their cells.
RECURSIVE filterLoop(_, _, _, _, _)
filterLoop(m, p, i, rows, data) ==
    IF i >= m.rows THEN Ok(Matrix(rows, m.cols, data))
    ELSE IF ~PredAt(p, i) THEN filterLoop(m, p, i + 1, rows, data)
    ELSE IF ~SliceOK(m.data, i * m.cols, (i + 1) * m.cols) THEN Panic("slice bounds out of range")
    ELSE filterLoop(m, p, i + 1, rows + 1, data \o GoSlice(m.data, i * m.cols, (i + 1) * m.cols))

\* func (m Matrix) FilterRows(f func(i int) bool) Matrix
FilterRows(m, p) == filterLoop(m, p, 0, 0, <<>>)

\* The i, j loops of T: t.set(j, i, m.at(i, j)).
RECURSIVE transposeLoop(_, _, _, _)
transposeLoop(m, t, i, j) ==
    IF i >= m.rows THEN Ok(t)
    ELSE IF j >= m.cols THEN transposeLoop(m, t, i + 1, 0)
    ELSE IF ~InRange(m.data, atIdx(m, i, j)) \/ ~InRange(t.data, setIdx(t, j, i))
         THEN Panic("index out of range")
    ELSE transposeLoop(m, set(t, j, i, at(m, i, j)), i, j + 1)

\* func (m Matrix) T() Matrix
T(m) == transposeLoop(m, Matrix(m.cols, m.rows, Zeros(Len(m.data))), 0, 0)

--------------------------------------------------------------------------------
(* Element-wise algebra *)

\* The range loop of Equals over a.data: "true", "false" or "panic".
RECURSIVE equalsLoop(_, _, _)
equalsLoop(a, b, i) ==
    IF i >= Len(a.data) THEN "true"
    ELSE IF ~InRange(b.data, i) THEN "panic"
    ELSE IF a.data[i + 1] # b.data[i + 1] THEN "false"
    ELSE equalsLoop(a, b, i + 1)

\* func Equals(a, b Matrix) bool: "true", "false" or "panic".
EqualsOutcome(a, b) ==
    IF a.cols # b.cols \/ a.rows # b.rows THEN "false" ELSE equalsLoop(a, b, 0)

Equals(a, b) == EqualsOutcome(a, b) = "true"

\* The functions Dot, Plus and Minus hand to dotApply.
BinAt(f, x, y) ==
    CASE f = "dot"  -> x * y
      [] f = "plus" -> x + y
      [] OTHER      -> x - y

\* The i, j loops of dotApply: c.set(i, j, f(a.at(i, j), b.at(i, j))).
RECURSIVE dotApplyLoop(_, _, _, _, _, _)
dotApplyLoop(a, b, f, c, i, j) ==
    IF i >= a.rows THEN Ok(c)
    ELSE IF j >= b.cols THEN dotApplyLoop(a, b, f, c, i + 1, 0)
    ELSE IF ~InRange(a.data, atIdx(a, i, j)) \/ ~InRange(b.data, atIdx(b, i, j))
            \/ ~InRange(c.data, setIdx(c, i, j))
         THEN Panic("index out of range")
    ELSE dotApplyLoop(a, b, f, set(c, i, j, BinAt(f, at(a, i, j), at(b, i, j))), i, j + 1)

\* func dotApply(a, b Matrix, f func(x, y float64) float64) Matrix
dotApply(a, b, f) ==
    IF a.cols # b.cols \/ a.rows # b.rows THEN Panic("dimension mismatch")
    ELSE LET c == New(a.rows, a.cols)
         IN  IF ~c.ok THEN c ELSE dotApplyLoop(a, b, f, c.val, 0, 0)

\* func Dot(a, b Matrix) Matrix
Dot(a, b) == dotApply(a, b, "dot")

\* func Plus(a, b Matrix) Matrix
Plus(a, b) == dotApply(a, b, "plus")

\* func Minus(a, b Matrix) Matrix
Minus(a, b) == dotApply(a, b, "minus")

--------------------------------------------------------------------------------
(* Product engine *)

\* The dimension check shared by Product and ParallelProduct: TRUE iff it panics.
productMismatch(a, b) == a.cols # b.rows

\* productInner reading b.at(j, k) for b.at(k, j).
RECURSIVE productInnerSwapped(_, _, _, _, _, _)
productInnerSwapped(a, b, i, j, k, p) ==
    IF k >= a.cols THEN [ok |-> TRUE, p |-> p]
    ELSE IF ~InRange(a.data, atIdx(a, i, k)) \/ ~InRange(b.data, atIdx(b, j, k))
         THEN [ok |-> FALSE, p |-> 0]
    ELSE productInnerSwapped(a, b, i, j, k + 1, p + at(a, i, k) * at(b, j, k))

\* The k loop of Product: p += a.at(i, k) * b.at(k, j).
RECURSIVE productInner(_, _, _, _, _, _)
productInner(a, b, i, j, k, p) ==
    IF k >= a.cols THEN [ok |-> TRUE, p |-> p]
    ELSE IF ~InRange(a.data, atIdx(a, i, k)) \/ ~InRange(b.data, atIdx(b, k, j))
         THEN [ok |-> FALSE, p |-> 0]
    ELSE productInner(a, b, i, j, k + 1, p + at(a, i, k) * at(b, k, j))

\* The i, j loops of Product: c.set(i, j, p).
RECURSIVE productLoop(_, _, _, _, _)
productLoop(a, b, c, i, j) ==
    IF i >= a.rows THEN Ok(c)
    ELSE IF j >= b.cols THEN productLoop(a, b, c, i + 1, 0)
    ELSE LET r == productInner(a, b, i, j, 0, 0)
         IN  IF ~r.ok \/ ~InRange(c.data, setIdx(c, i, j)) THEN Panic("index out of range")
             ELSE productLoop(a, b, set(c, i, j, r.p), i, j + 1)

\* func Product(a, b Matrix) Matrix
Product(a, b) ==
    IF productMismatch(a, b) THEN Panic("dimension mismatch")
    ELSE LET c == New(a.rows, b.cols)
         IN  IF ~c.ok THEN c ELSE productLoop(a, b, c.val, 0, 0)

\* taskInner with p = ... for p += ...
RECURSIVE taskInnerAssign(_, _, _, _, _, _)
taskInnerAssign(a, b, i, j, k, p) ==
    IF k >= a.cols THEN [ok |-> TRUE, p |-> p]
    ELSE IF ~InRange(a.data, atIdx(a, i, k)) \/ ~InRange(b.data, atIdx(b, k, j))
         THEN [ok |-> FALSE, p |-> 0]
    ELSE taskInnerAssign(a, b, i, j, k + 1, at(a, i, k) * at(b, k, j))

\* The k loop of a row task of ParallelProduct.
RECURSIVE taskInner(_, _, _, _, _, _)
taskInner(a, b, i, j, k, p) ==
    IF k >= a.cols THEN [ok |-> TRUE, p |-> p]
    ELSE IF ~InRange(a.data, atIdx(a, i, k)) \/ ~InRange(b.data, atIdx(b, k, j))
         THEN [ok |-> FALSE, p |-> 0]
    ELSE taskInner(a, b, i, j, k + 1, p + at(a, i, k) * at(b, k, j))

\* taskWriteIdx striding by the row count.
taskWriteIdxByRows(c, i, j) == c.rows * i + j

\* The index of c.data the task of row i writes in its iteration j: c.set(i, j, p).
taskWriteIdx(c, i, j) == setIdx(c, i, j)

\* One iteration j of the task of row i: the cells of c afterwards.
taskCell(a, b, c, i, j) ==
    LET r == taskInner(a, b, i, j, 0, 0)
    IN  IF ~r.ok \/ ~InRange(c.data, taskWriteIdx(c, i, j)) THEN Panic("index out of range")
        ELSE Ok([c EXCEPT !.data[taskWriteIdx(c, i, j) + 1] = r.p])

\* ParallelProduct with its row tasks run to completion one after another.
RECURSIVE parallelLoop(_, _, _, _, _)
parallelLoop(a, b, c, i, j) ==
    IF i >= a.rows THEN Ok(c)
    ELSE IF j >= b.cols THEN parallelLoop(a, b, c, i + 1, 0)
    ELSE LET r == taskCell(a, b, c, i, j)
         IN  IF ~r.ok THEN r ELSE parallelLoop(a, b, r.val, i, j + 1)

\* func ParallelProduct(a, b Matrix) Matrix
ParallelProduct(a, b) ==
    IF productMismatch(a, b) THEN Panic("dimension mismatch")
    ELSE LET c == New(a.rows, b.cols)
         IN  IF ~c.ok THEN c ELSE parallelLoop(a, b, c.val, 0, 0)

\* func generalFromMat(m Matrix) blas64.General
generalFromMat(m) == [Rows |-> m.rows, Cols |-> m.cols, Stride |-> m.cols, Data |-> m.data]

\* sum over l in k..A.Cols-1 of A(i, l) * B(l, j), read through the descriptors.
RECURSIVE gemmSum(_, _, _, _, _)
gemmSum(A, B, i, j, l) ==
    IF l >= A.Cols THEN 0
    ELSE A.Data[i * A.Stride + l + 1] * B.Data[l * B.Stride + j + 1] + gemmSum(A, B, i, j, l + 1)

\* Whether every cell the routine touches lies inside the three buffers.
gemmInBounds(A, B, C) ==
    \A i \in 0..(A.Rows - 1) : \A j \in 0..(B.Cols - 1) :
        /\ InRange(C.Data, i * C.Stride + j)
        /\ \A l \in 0..(A.Cols - 1) :
              InRange(A.Data, i * A.Stride + l) /\ InRange(B.Data, l * B.Stride + j)

\* blas64.Gemm(NoTrans, NoTrans, alpha, A, B, beta, C): the cells it leaves in
\* C.Data, C = alpha*A*B + beta*C with m = A.Rows, n = B.Cols, k = A.Cols.
Gemm(alpha, A, B, beta, C) ==
    IF ~gemmInBounds(A, B, C) THEN [ok |-> FALSE, data |-> C.Data]
    ELSE [ok |-> TRUE,
          data |-> [x \in 1..Len(C.Data) |->
                      IF \E i \in 0..(A.Rows - 1), j \in 0..(B.Cols - 1) : x = i * C.Stride + j + 1
                      THEN LET ij == CHOOSE ij \in (0..(A.Rows - 1)) \X (0..(B.Cols - 1)) :
                                         x = ij[1] * C.Stride + ij[2] + 1
                           IN  alpha * gemmSum(A, B, ij[1], ij[2], 0) + beta * C.Data[x]
                      ELSE C.Data[x]]]

\* Whether BlasProduct(a, b) reaches its call of blas64.Gemm.
blasCallsGemm(a, b) == New(a.rows, b.cols).ok

\* func BlasProduct(a, b Matrix) Matrix
BlasProduct(a, b) ==
    LET c == New(a.rows, b.cols)
    IN  IF ~c.ok THEN c
        ELSE LET g == Gemm(1, generalFromMat(a), generalFromMat(b), 0, generalFromMat(c.val))
             IN  IF ~g.ok THEN Panic("blas") ELSE Ok([c.val EXCEPT !.data = g.data])

--------------------------------------------------------------------------------
(* The operands the calls are studied on *)

\* Every matrix FromFunc builds from ma generator with dimensions 0..MaxDim.
Inputs == {FromFunc(r, k, g).val : r \in 0..MaxDim, k \in 0..MaxDim, g \in Gens}

\* The from / to / k arguments tried: one below 0 to one above MaxDim.
Args == (0 - 1)..(MaxDim + 1)

NoCall == [op |-> "none", x |-> 0, y |-> 0, res |-> Panic(""), gemm |-> FALSE]

Call(op, x, y, res, gemm) == [op |-> op, x |-> x, y |-> y, res |-> res, gemm |-> gemm]

ParIdle ==
    /\ mc = NoMatrix /\ pc = "idle" /\ loopI = 0 /\ wg = 0
    /\ task = <<>> /\ writes = <<>> /\ reads = {}

HeapIdle == heap = <<>> /\ mats = <<>> /\ held = {} /\ last = [kind |-> "none", ok |-> TRUE]

--------------------------------------------------------------------------------
(* SpecPure: single calls on operands ma, mb *)

PureInit == ma \in Inputs /\ mb \in Inputs /\ out = NoCall /\ ParIdle /\ HeapIdle

PureFrame == UNCHANGED <<ma, mb>> /\ UNCHANGED parVars /\ UNCHANGED heapVars

DoProduct == out' = Call("Product", 0, 0, Product(ma, mb), FALSE) /\ PureFrame

DoParallelProduct == out' = Call("ParallelProduct", 0, 0, ParallelProduct(ma, mb), FALSE) /\ PureFrame

DoBlasProduct ==
    out' = Call("BlasProduct", 0, 0, BlasProduct(ma, mb), blasCallsGemm(ma, mb)) /\ PureFrame

\* The calls on ma alone are made from the states where mb = ma.
DoSliceCols ==
    /\ mb = ma
    /\ \E from \in Args, to \in Args :
          out' = Call("SliceCols", from, to, SliceCols(ma, from, to), FALSE)
    /\ PureFrame

DoSliceRows ==
    /\ mb = ma
    /\ \E from \in Args, to \in Args :
          out' = Call("SliceRows", from, to, SliceRows(ma, from, to), FALSE)
    /\ PureFrame

\* ConcatenateCols(ma.SliceCols(0, k), ma.SliceCols(k, ma.Cols()))
splitJoinCols(m, k) ==
    LET l == SliceCols(m, 0, k)
        r == SliceCols(m, k, m.cols)
    IN  IF ~l.ok THEN l ELSE IF ~r.ok THEN r ELSE ConcatenateCols(<<l.val, r.val>>)

\* ConcatenateRows(ma.SliceRows(0, k), ma.SliceRows(k, ma.Rows()))
splitJoinRows(m, k) ==
    LET l == SliceRows(m, 0, k)
        r == SliceRows(m, k, m.rows)
    IN  IF ~l.ok THEN l ELSE IF ~r.ok THEN r ELSE ConcatenateRows(<<l.val, r.val>>)

DoSplitJoinCols ==
    /\ mb = ma
    /\ \E k \in 0..ma.cols : out' = Call("SplitJoinCols", k, 0, splitJoinCols(ma, k), FALSE)
    /\ PureFrame

DoSplitJoinRows ==
    /\ mb = ma
    /\ \E k \in 0..ma.rows : out' = Call("SplitJoinRows", k, 0, splitJoinRows(ma, k), FALSE)
    /\ PureFrame

PureNext ==
    \/ DoProduct
    \/ DoParallelProduct
    \/ DoBlasProduct
    \/ DoSliceCols
    \/ DoSliceRows
    \/ DoSplitJoinCols
    \/ DoSplitJoinRows

SpecPure == PureInit /\ [][PureNext]_vars

--------------------------------------------------------------------------------
(* SpecPar: ParallelProduct(ma, mb) with its goroutines interleaved *)

\* The operands of the interleaved runs: two of the generators, all dimensions.
ParInputs == {FromFunc(r, k, g).val : r \in 0..MaxDim, k \in 0..MaxDim, g \in {"pos", "diag"}}

ParInit ==
    /\ ma \in ParInputs /\ mb \in ParInputs /\ out = NoCall /\ HeapIdle
    /\ mc = NoMatrix /\ pc = "check" /\ loopI = 0 /\ wg = 0
    /\ task = <<>> /\ writes = <<>> /\ reads = {}

ParFrame == UNCHANGED <<ma, mb, out>> /\ UNCHANGED heapVars

\* The cells of a.data and b.data the task of row i reads in its iteration j.
taskReads(a, b, i, j) ==
    {[t |-> i, buf |-> "a", idx |-> atIdx(a, i, k)] : k \in 0..(a.cols - 1)}
        \cup {[t |-> i, buf |-> "b", idx |-> atIdx(b, k, j)] : k \in 0..(a.cols - 1)}

\* The dimension check and c := New(a.rows, b.cols).
PCheck ==
    /\ pc = "check"
    /\ IF productMismatch(ma, mb) \/ ~New(ma.rows, mb.cols).ok
       THEN pc' = "panic" /\ UNCHANGED <<mc, task, writes>>
       ELSE /\ pc' = "fork"
            /\ mc' = New(ma.rows, mb.cols).val
            /\ task' = [i \in 0..(ma.rows - 1) |-> [st |-> "unborn", j |-> 0]]
            /\ writes' = [x \in 1..(ma.rows * mb.cols) |-> <<>>]
    /\ UNCHANGED <<loopI, wg, reads>>
    /\ ParFrame

\* One iteration of the fork loop: wg.Add(1); go func(i) {...}(i).
PFork ==
    /\ pc = "fork" /\ loopI < ma.rows
    /\ wg' = wg + 1
    /\ task' = [task EXCEPT ![loopI].st = "run"]
    /\ loopI' = loopI + 1
    /\ UNCHANGED <<mc, pc, writes, reads>>
    /\ ParFrame

\* The fork loop ends: the caller reaches wg.Wait().
PForkEnd ==
    /\ pc = "fork" /\ loopI >= ma.rows
    /\ pc' = "wait"
    /\ UNCHANGED <<mc, loopI, wg, task, writes, reads>>
    /\ ParFrame

\* PWait without the wait: the caller returns c at once.
PWaitNoBlock ==
    /\ pc = "wait"
    /\ pc' = "done"
    /\ UNCHANGED <<mc, loopI, wg, task, writes, reads>>
    /\ ParFrame

\* wg.Wait() returns once the counter is zero; then return c.
PWait ==
    /\ pc = "wait" /\ wg = 0
    /\ pc' = "done"
    /\ UNCHANGED <<mc, loopI, wg, task, writes, reads>>
    /\ ParFrame

\* The task of row i runs one iteration of its j loop.
TStep(i) ==
    /\ pc \in {"fork", "wait"}
    /\ task[i].st = "run" /\ task[i].j < mb.cols
    /\ LET r == taskCell(ma, mb, mc, i, task[i].j)
       IN  IF ~r.ok
           THEN pc' = "panic" /\ UNCHANGED <<mc, task, writes, reads>>
           ELSE /\ mc' = r.val
                /\ writes' = [writes EXCEPT ![taskWriteIdx(mc, i, task[i].j) + 1] = Append(@, i)]
                /\ reads' = reads \cup taskReads(ma, mb, i, task[i].j)
                /\ task' = [task EXCEPT ![i].j = @ + 1]
                /\ pc' = pc
    /\ UNCHANGED <<loopI, wg>>
    /\ ParFrame

\* The task of row i leaves its j loop: wg.Done().
TDone(i) ==
    /\ pc \in {"fork", "wait"}
    /\ task[i].st = "run" /\ task[i].j >= mb.cols
    /\ wg' = wg - 1
    /\ task' = [task EXCEPT ![i].st = "done"]
    /\ UNCHANGED <<mc, pc, loopI, writes, reads>>
    /\ ParFrame

Caller == PCheck \/ PFork \/ PForkEnd \/ PWait

Tasks == \E i \in DOMAIN task : TStep(i) \/ TDone(i)

ParNext == Caller \/ Tasks

SpecPar == ParInit /\ [][ParNext]_vars

\* The Go scheduler keeps running some runnable goroutine while there is one.
SpecParFair == ParInit /\ [][ParNext]_vars /\ WF_vars(ParNext)

--------------------------------------------------------------------------------
(* Spec: a caller working with Matrix values over shared backing arrays *)

\* The value of Matrix m: its dimensions and the cells of its backing array.
Val(m) == Matrix(m.rows, m.cols, heap[m.data])

\* The rows / cols arguments the caller passes to the constructors.
CtorDims == (0 - 1)..MaxHeapDim

\* The positions and ranges the caller passes to Set and the slices.
HeapArgs == 0..MaxHeapDim

\* The []float64 the caller starts with.
CallerSlices == {<<5>>, <<5, 6>>}

Init ==
    /\ heap \in {<<s>> : s \in CallerSlices}
    /\ held = {1}
    /\ mats = <<>>
    /\ last = [kind |-> "none", ok |-> TRUE]
    /\ ma = NoMatrix /\ mb = NoMatrix /\ out = NoCall /\ ParIdle

HeapFrame == UNCHANGED <<ma, mb, out>> /\ UNCHANGED parVars

Stored == 1..Len(mats)

\* A call that returns a Matrix: the caller keeps it; its data is the slice the
\* call built with make / append, a backing array of its own.
Returns(op, res) ==
    /\ last' = [kind |-> "call", ok |-> res.ok]
    /\ IF res.ok
       THEN /\ heap' = Append(heap, res.val.data)
            /\ mats' = Append(mats, [rows |-> res.val.rows, cols |-> res.val.cols,
                                     data |-> Len(heap) + 1])
       ELSE UNCHANGED <<heap, mats>>
    /\ UNCHANGED held
    /\ HeapFrame

CanKeep == Len(mats) < MaxMats

CallNew == CanKeep /\ \E r \in CtorDims, k \in CtorDims : Returns("New", New(r, k))

CallFromSlice ==
    /\ CanKeep
    /\ \E r \in CtorDims, k \in CtorDims, s \in held :
          Returns("FromSlice", FromSlice(r, k, heap[s]))

CallFromFunc ==
    /\ CanKeep
    /\ \E r \in CtorDims, k \in CtorDims :
          Returns("FromFunc", FromFunc(r, k, "pos"))

\* func (m Matrix) ToSlice() []float64 { return m.data }
CallToSlice ==
    /\ \E n \in Stored : held' = held \cup {mats[n].data}
    /\ last' = [kind |-> "call", ok |-> TRUE]
    /\ UNCHANGED <<heap, mats>>
    /\ HeapFrame

\* The caller assigns s[0] = 9 on a slice it holds.
CallerWrite ==
    /\ \E s \in held :
          /\ InRange(heap[s], 0)
          /\ heap' = [heap EXCEPT ![s][1] = 9]
    /\ last' = [kind |-> "write", ok |-> TRUE]
    /\ UNCHANGED <<mats, held>>
    /\ HeapFrame

CallClone == CanKeep /\ \E n \in Stored : Returns("Clone", Clone(Val(mats[n])))

\* m.Apply(f): m is a copy of the struct, m.data the caller's backing array,
\* and m.set writes f(i, j) into it.
CallApply ==
    /\ \E n \in Stored :
          LET r == Apply(Val(mats[n]), "two")
          IN  /\ last' = [kind |-> "call", ok |-> r.ok]
              /\ heap' = IF r.ok THEN [heap EXCEPT ![mats[n].data] = r.val.data] ELSE heap
    /\ UNCHANGED <<mats, held>>
    /\ HeapFrame

CallSet ==
    /\ CanKeep
    /\ \E n \in Stored, i \in HeapArgs, j \in HeapArgs :
          Returns("Set", Set(Val(mats[n]), i, j, 9))

CallScale == CanKeep /\ \E n \in Stored : Returns("Scale", Scale(Val(mats[n]), 2))

CallAddScalar == CanKeep /\ \E n \in Stored : Returns("AddScalar", AddScalar(Val(mats[n]), 1))

CallMap == CanKeep /\ \E n \in Stored : Returns("Map", Map(ScaleFn(0), Val(mats[n])))

\* The argument lists of the concatenations: none, one or two kept matrices.
MatLists == {<<>>} \cup {<<n>> : n \in Stored} \cup {<<n, k>> : n \in Stored, k \in Stored}

ValList(ns) == [x \in 1..Len(ns) |-> Val(mats[ns[x]])]

CallConcatenateCols ==
    CanKeep /\ \E ns \in MatLists : Returns("ConcatenateCols", ConcatenateCols(ValList(ns)))

CallConcatenateRows ==
    CanKeep /\ \E ns \in MatLists : Returns("ConcatenateRows", ConcatenateRows(ValList(ns)))

CallSliceCols ==
    /\ CanKeep
    /\ \E n \in Stored, from \in HeapArgs, to \in HeapArgs :
          Returns("SliceCols", SliceCols(Val(mats[n]), from, to))

CallSliceRows ==
    /\ CanKeep
    /\ \E n \in Stored, from \in HeapArgs, to \in HeapArgs :
          Returns("SliceRows", SliceRows(Val(mats[n]), from, to))

CallFilterRows ==
    CanKeep /\ \E n \in Stored, p \in Preds : Returns("FilterRows", FilterRows(Val(mats[n]), p))

CallT == CanKeep /\ \E n \in Stored : Returns("T", T(Val(mats[n])))

CallDot ==
    CanKeep /\ \E n \in Stored, k \in Stored : Returns("Dot", Dot(Val(mats[n]), Val(mats[k])))

CallPlus ==
    CanKeep /\ \E n \in Stored, k \in Stored : Returns("Plus", Plus(Val(mats[n]), Val(mats[k])))

CallMinus ==
    CanKeep /\ \E n \in Stored, k \in Stored : Returns("Minus", Minus(Val(mats[n]), Val(mats[k])))

CallProduct ==
    /\ CanKeep
    /\ \E n \in Stored, k \in Stored : Returns("Product", Product(Val(mats[n]), Val(mats[k])))

\* The caller sees ParallelProduct as one synchronous call (SpecPar has its steps).
CallParallelProduct ==
    /\ CanKeep
    /\ \E n \in Stored, k \in Stored :
          Returns("ParallelProduct", ParallelProduct(Val(mats[n]), Val(mats[k])))

CallBlasProduct ==
    /\ CanKeep
    /\ \E n \in Stored, k \in Stored :
          Returns("BlasProduct", BlasProduct(Val(mats[n]), Val(mats[k])))

Next ==
    \/ CallNew \/ CallFromSlice \/ CallFromFunc \/ CallToSlice \/ CallerWrite
    \/ CallClone \/ CallApply \/ CallSet \/ CallScale \/ CallAddScalar \/ CallMap
    \/ CallConcatenateCols \/ CallConcatenateRows \/ CallSliceCols \/ CallSliceRows
    \/ CallFilterRows \/ CallT \/ CallDot \/ CallPlus \/ CallMinus
    \/ CallProduct \/ CallParallelProduct \/ CallBlasProduct

Spec == Init /\ [][Next]_vars

--------------------------------------------------------------------------------
(* Claims on single calls (SpecPure) *)

Products == {"Product", "ParallelProduct", "BlasProduct"}

\* C2: on operands with a.cols # b.rows each of Product, ParallelProduct and
\* BlasProduct fails with a dimension-mismatch error of its own, raised before
\* the external routine is invoked, and returns no Matrix.
C2_ProductsRejectMismatch ==
    (out.op \in Products /\ ma.cols # mb.rows)
        => (~out.res.ok /\ out.res.err = "dimension mismatch" /\ ~out.gemm)

\* C7: splitting m at any column k in 0..m.cols (any row k in 0..m.rows) with
\* SliceCols (SliceRows) and joining the halves with ConcatenateCols
\* (ConcatenateRows) returns a matrix that Equals m.
C7_SplitJoinRoundTrip ==
    out.op \in {"SplitJoinCols", "SplitJoinRows"}
        => (out.res.ok /\ EqualsOutcome(out.res.val, ma) = "true")

C7_Witness ==
    /\ out.op = "SplitJoinCols" /\ out.x = 1 /\ out.res.ok
    /\ ma = FromFunc(2, 3, "pos").val
    /\ out.res.val.data = <<1, 2, 3, 11, 12, 13>>

\* sum over k' in 0..k-1 of m(i, k') * n(k', j), cells read row-major.
RECURSIVE InnerProduct(_, _, _, _, _)
InnerProduct(m, n, i, j, k) ==
    IF k <= 0 THEN 0
    ELSE InnerProduct(m, n, i, j, k - 1)
            + m.data[i * m.cols + (k - 1) + 1] * n.data[(k - 1) * n.cols + j + 1]

\* C8: for a.cols = b.rows, Product(a, b) returns an a.rows x b.cols matrix whose
\* cell (i, j) is the sum over k of a(i, k) * b(k, j), 0 when a.cols = 0.
C8_ProductCells ==
    (out.op = "Product" /\ ma.cols = mb.rows)
        => /\ out.res.ok
           /\ out.res.val.rows = ma.rows /\ out.res.val.cols = mb.cols
           /\ Len(out.res.val.data) = ma.rows * mb.cols
           /\ \A i \in 0..(ma.rows - 1) : \A j \in 0..(mb.cols - 1) :
                 out.res.val.data[i * mb.cols + j + 1] = InnerProduct(ma, mb, i, j, ma.cols)

\* A 2x3 of ones times a 3x2 of twos is a 2x2 of sixes.
C8_Witness ==
    /\ out.op = "Product"
    /\ ma = FromFunc(2, 3, "one").val /\ mb = FromFunc(3, 2, "two").val
    /\ out.res = Ok(Matrix(2, 2, <<6, 6, 6, 6>>))

\* C9: SliceCols(from, to) / SliceRows(from, to) fail with an invalid-range error,
\* returning no matrix, exactly when from < 0, to > cols / rows, or to < from;
\* otherwise they return the (rows, to-from) / (to-from, cols) matrix whose cell
\* (i, j) is m(i, from+j) / m(from+i, j).
C9_SliceContract ==
    /\ out.op = "SliceCols" =>
          LET from == out.x
              to == out.y
              r == out.res
          IN  IF from < 0 \/ to > ma.cols \/ to < from
              THEN ~r.ok /\ r.err = "invalid range" /\ r.val = NoMatrix
              ELSE /\ r.ok /\ r.val.rows = ma.rows /\ r.val.cols = to - from
                   /\ Len(r.val.data) = ma.rows * (to - from)
                   /\ \A i \in 0..(ma.rows - 1) : \A j \in 0..(to - from - 1) :
                         r.val.data[i * (to - from) + j + 1] = ma.data[i * ma.cols + from + j + 1]
    /\ out.op = "SliceRows" =>
          LET from == out.x
              to == out.y
              r == out.res
          IN  IF from < 0 \/ to > ma.rows \/ to < from
              THEN ~r.ok /\ r.err = "invalid range" /\ r.val = NoMatrix
              ELSE /\ r.ok /\ r.val.rows = to - from /\ r.val.cols = ma.cols
                   /\ Len(r.val.data) = (to - from) * ma.cols
                   /\ \A i \in 0..(to - from - 1) : \A j \in 0..(ma.cols - 1) :
                         r.val.data[i * ma.cols + j + 1] = ma.data[(from + i) * ma.cols + j + 1]

C9_Witness ==
    /\ out.op = "SliceCols" /\ out.x = 1 /\ out.y = 3
    /\ ma = FromFunc(2, 3, "pos").val
    /\ out.res = Ok(Matrix(2, 2, <<2, 3, 12, 13>>))

--------------------------------------------------------------------------------
(* Claims on ParallelProduct's interleavings (SpecPar, SpecParFair) *)

\* C4: for a.cols = b.rows, Product(a, b), BlasProduct(a, b) and what
\* ParallelProduct(a, b) returns under every interleaving of its row tasks are
\* Equals to one another, zero dimensions included.
C4_StrategiesAgree ==
    (ma.cols = mb.rows) =>
        /\ pc # "panic"
        /\ pc \in {"check", "done"} =>
              LET p == Product(ma, mb)
                  g == BlasProduct(ma, mb)
              IN  /\ p.ok /\ g.ok
                  /\ EqualsOutcome(p.val, g.val) = "true"
                  /\ pc = "done" => /\ EqualsOutcome(p.val, mc) = "true"
                                    /\ EqualsOutcome(mc, g.val) = "true"

C4_Witness ==
    /\ pc = "done"
    /\ ma = FromFunc(2, 3, "pos").val /\ mb = FromFunc(3, 2, "diag").val
    /\ mc = Matrix(2, 2, <<2, 4, 22, 24>>)
    /\ BlasProduct(ma, mb).val = mc

\* The row tasks forked and not yet past wg.Done().
Running == {i \in DOMAIN task : task[i].st = "run"}

\* The counter is the number of running tasks; at the return every task is done
\* and every cell of its row written.
C5_Complete ==
    /\ pc \in {"fork", "wait", "done"} => wg = Cardinality(Running)
    /\ pc = "done" =>
          /\ DOMAIN task = 0..(ma.rows - 1)
          /\ \A i \in 0..(ma.rows - 1) :
                /\ task[i].st = "done" /\ task[i].j = mb.cols
                /\ \A j \in 0..(mb.cols - 1) : Len(writes[i * mb.cols + j + 1]) >= 1

\* C5: ParallelProduct returns only after each of its a.rows row tasks has
\* written all b.cols cells of its row and called wg.Done(), the counter being
\* the number of forked tasks still running; and under fair scheduling the call
\* on conformant operands returns.
C5_ReturnsOnlyWhenComplete ==
    /\ []C5_Complete
    /\ (pc = "check" /\ ma.cols = mb.rows) ~> (pc = "done")

C5_Witness ==
    /\ pc = "done" /\ ma.rows = 3 /\ mb.cols = 2 /\ ma.cols = 1
    /\ \A x \in DOMAIN writes : Len(writes[x]) = 1

\* Per cell of c.data, the tasks that wrote it so far: at most one, the task of
\* the cell's row; and the buffers the tasks have read.
C10_Disjoint ==
    /\ pc \in {"fork", "wait", "done"} =>
          \A x \in DOMAIN writes :
              /\ Len(writes[x]) <= 1
              /\ pc = "done" => Len(writes[x]) = 1
              /\ \A n \in 1..Len(writes[x]) :
                    LET i == writes[x][n]
                    IN  /\ i * mb.cols <= x - 1 /\ x - 1 <= i * mb.cols + mb.cols - 1
                        /\ task[i].st # "unborn"
    /\ \A r \in reads : r.buf \in {"a", "b"}

\* C10: in every interleaving each cell (i, j) of c.data is written at most once,
\* exactly once by the time of the return, and only by the task of row i, inside
\* i*b.cols .. i*b.cols+b.cols-1; tasks read only a.data and b.data; a and b keep
\* their cells.
C10_RaceFree == []C10_Disjoint /\ [][ma' = ma /\ mb' = mb]_vars

C10_Witness ==
    /\ pc = "wait" /\ ma.rows = 2 /\ mb.cols = 2 /\ ma.cols = 2
    /\ writes = <<<<0>>, <<>>, <<1>>, <<>>>>
    /\ task[0].st = "run" /\ task[1].st = "run"

--------------------------------------------------------------------------------
(* Claims on the caller's Matrix values (Spec) *)

\* C1: no public operation (a step of kind "call": every action of Spec but the
\* caller's own write) changes the dimensions or a cell of a Matrix that exists
\* before the call.
C1_NoMutation ==
    [][last'.kind = "call" =>
          \A n \in 1..Len(mats) :
              /\ n <= Len(mats') /\ mats'[n] = mats[n]
              /\ heap'[mats[n].data] = heap[mats[n].data]]_vars

\* C3: every Matrix a constructor or operation has returned has rows >= 0,
\* cols >= 0 and len(data) = rows*cols.
C3_Representation ==
    \A n \in 1..Len(mats) :
        /\ mats[n].rows >= 0 /\ mats[n].cols >= 0
        /\ Len(heap[mats[n].data]) = mats[n].rows * mats[n].cols

\* C6: the backing array of a returned Matrix is that of no other Matrix and of
\* no slice the caller holds.
C6_ExclusiveBuffers ==
    \A n \in 1..Len(mats) :
        /\ mats[n].data \notin held
        /\ \A k \in 1..Len(mats) : k # n => mats[k].data # mats[n].data

====
